---- MODULE Spec2Model ----
(***************************************************************************)
(* Model of letterboxd_to_social_feeds.py: one run of the script is the    *)
(* sequence  parse args / clear cache / load cache -> fetch and normalise  *)
(* -> init_summarizer -> build_feed(Twitter) -> build_feed(Threads) ->     *)
(* merge and save_cache -> git_push.  The cache file, the two feed files   *)
(* and the remote RSS document outlive a run; everything else is memory of *)
(* the running process.                                                    *)
(*                                                                         *)
(* Python strings are TLA+ strings (Len, SubSeq and \o act on them as on   *)
(* Python's str).  A glyph outside ASCII is written as a stand-in of the   *)
(* same number of code points, since len() counts code points.             *)
(***************************************************************************)
EXTENDS Integers, Sequences, FiniteSets, TLC

(* ------------------------------------------------------------------ *)
(* Bounds of the model                                                 *)
(* ------------------------------------------------------------------ *)
MaxRuns == 2
MaxEntries == 2

(* ------------------------------------------------------------------ *)
(* Configuration (lines 17-34)                                         *)
(* ------------------------------------------------------------------ *)
None == "<None>"

TW_LIMIT == 280
LINK_LEN == 23
HASHTAG == " #FilmReview"
HASHTAG_LEN == Len(HASHTAG)
TH_LIMIT == 500

TWITTER_OUTPUT_PATH == "cleaned_letterboxd_twitter.xml"
THREADS_OUTPUT_PATH == "cleaned_letterboxd_threads.xml"
OutputPaths == {TWITTER_OUTPUT_PATH, THREADS_OUTPUT_PATH}

\* Stand-ins for the glyphs of lines 104, 105, 118 and 119.
G_CAMERA == "@"        \* U+1F3A5, one code point
G_STAR == "^~"         \* U+2B50 U+FE0F, two code points
G_FILLED == "*"        \* U+2605
G_HALF == "h"          \* U+00BD
G_LINK == "&"          \* U+1F517

(* ------------------------------------------------------------------ *)
(* Python's str and dict operations used by the script                 *)
(* ------------------------------------------------------------------ *)
Min(a, b) == IF a < b THEN a ELSE b
Max(a, b) == IF a > b THEN a ELSE b

\* s[i] for 1 <= i <= Len(s)
CharAt(s, i) == SubSeq(s, i, i)

IsSpace(c) == c \in {" ", "\n", "\t"}

\* s[:n], with Python's meaning of a negative or too large n
SlicePrefix(s, n) ==
    IF n >= 0 THEN SubSeq(s, 1, Min(n, Len(s)))
    ELSE SubSeq(s, 1, Max(0, Len(s) + n))

RECURSIVE RStrip(_)
RStrip(s) ==
    IF Len(s) > 0 /\ IsSpace(CharAt(s, Len(s)))
    THEN RStrip(SubSeq(s, 1, Len(s) - 1))
    ELSE s

RECURSIVE LStrip(_)
LStrip(s) ==
    IF Len(s) > 0 /\ IsSpace(CharAt(s, 1))
    THEN LStrip(SubSeq(s, 2, Len(s)))
    ELSE s

Strip(s) == LStrip(RStrip(s))

\* s.replace('\n', ' '), computed on the two halves of s
RECURSIVE ReplaceNewlines(_)
ReplaceNewlines(s) ==
    IF Len(s) = 0 THEN s
    ELSE IF Len(s) = 1 THEN (IF s = "\n" THEN " " ELSE s)
    ELSE LET m == Len(s) \div 2
         IN  ReplaceNewlines(SubSeq(s, 1, m)) \o ReplaceNewlines(SubSeq(s, m + 1, Len(s)))

\* s * n
RECURSIVE Repeat(_, _)
Repeat(s, n) == IF n <= 0 THEN "" ELSE s \o Repeat(s, n - 1)

StartsWith(s, p) == Len(s) >= Len(p) /\ SubSeq(s, 1, Len(p)) = p

\* Python truthiness of a value that is None or a str
Truthy(x) == x /= None /\ x /= ""

\* a or b
Or(a, b) == IF Truthy(a) THEN a ELSE b

(* float(): the value in tenths, or the exception.  Covers None and the   *)
(* strings [sign] digits [. digit]; any other string raises.              *)
Digits == {"0", "1", "2", "3", "4", "5", "6", "7", "8", "9"}

DigitVal(c) ==
    CASE c = "0" -> 0 [] c = "1" -> 1 [] c = "2" -> 2 [] c = "3" -> 3
      [] c = "4" -> 4 [] c = "5" -> 5 [] c = "6" -> 6 [] c = "7" -> 7
      [] c = "8" -> 8 [] c = "9" -> 9

AllDigits(s) == Len(s) > 0 /\ \A i \in 1..Len(s) : CharAt(s, i) \in Digits

RECURSIVE DecimalVal(_)
DecimalVal(s) ==
    IF Len(s) = 0 THEN 0
    ELSE 10 * DecimalVal(SubSeq(s, 1, Len(s) - 1)) + DigitVal(CharAt(s, Len(s)))

\* position of the first '.', or 0
DotAt(s) ==
    IF \E i \in 1..Len(s) : CharAt(s, i) = "."
    THEN CHOOSE i \in 1..Len(s) :
            CharAt(s, i) = "." /\ \A j \in 1..(i - 1) : CharAt(s, j) /= "."
    ELSE 0

Raises == [ok |-> FALSE, tenths |-> 0]

UnsignedTenths(s) ==
    LET d == DotAt(s) IN
    IF d = 0
    THEN (IF AllDigits(s) THEN [ok |-> TRUE, tenths |-> 10 * DecimalVal(s)] ELSE Raises)
    ELSE LET ip == SubSeq(s, 1, d - 1)
             fp == SubSeq(s, d + 1, Len(s))
         IN  IF AllDigits(ip) /\ Len(fp) = 1 /\ AllDigits(fp)
             THEN [ok |-> TRUE, tenths |-> 10 * DecimalVal(ip) + DecimalVal(fp)]
             ELSE Raises

PyFloat(x) ==
    IF x = None THEN Raises
    ELSE LET s == Strip(x) IN
         IF Len(s) > 0 /\ CharAt(s, 1) = "-"
         THEN LET u == UnsignedTenths(SubSeq(s, 2, Len(s))) IN
              [ok |-> u.ok, tenths |-> 0 - u.tenths]
         ELSE UnsignedTenths(s)

\* int(val): truncation towards zero
PyInt(tenths) == IF tenths >= 0 THEN tenths \div 10 ELSE 0 - ((0 - tenths) \div 10)

\* val % 1 >= 0.5 (Python's % takes the sign of the divisor)
HalfPart(tenths) == (tenths % 10) >= 5

(* ------------------------------------------------------------------ *)
(* extract_review (lines 77-80).  The HTML body is held as BeautifulSoup *)
(* sees it: the sequence of its <p> elements, each with its text and     *)
(* whether it contains an <img>.                                         *)
(* ------------------------------------------------------------------ *)
Para(text) == [text |-> text, img |-> FALSE]
ImgPara(text) == [text |-> text, img |-> TRUE]

RECURSIVE Join(_, _)
Join(strs, sep) ==
    IF Len(strs) = 0 THEN ""
    ELSE IF Len(strs) = 1 THEN strs[1]
    ELSE strs[1] \o sep \o Join(Tail(strs), sep)

extract_review(html) ==
    LET keep == SelectSeq(html, LAMBDA p : ~p.img)
        paras == [i \in 1..Len(keep) |-> Strip(keep[i].text)]
    IN  Join(paras, " ")

(* ------------------------------------------------------------------ *)
(* The remote RSS document: feedparser entries, newest first           *)
(* ------------------------------------------------------------------ *)
Unit == "abcde fghi "          \* 11 characters, blanks at 6 and 11

DescShort == << Para("  Great film. ") >>
DescImageOnly == << ImgPara("A poster and nothing else to say here.") >>
DescFit == << ImgPara("poster"), Para(" A taut and moving revenge tale. "), Para("Loved it.") >>
DescEdge == << Para(Repeat(Unit, 19) \o "abcde fghij") >>   \* 220 characters
DescMid == << Para(Repeat(Unit, 27)) >>      \* 296 characters once stripped
DescLong == << Para(Repeat(Unit, 55)) >>     \* 604 characters once stripped

R1 == "letterboxd-review-1"
R2 == "letterboxd-review-2"
W3 == "letterboxd-watch-3"

RawEntry(guid, film, year, rating, desc, ts) ==
    [guid |-> guid,
     title |-> "",
     letterboxd_filmTitle |-> None, letterboxd_filmtitle |-> film,
     letterboxd_filmYear |-> None, letterboxd_filmyear |-> year,
     letterboxd_memberRating |-> None, letterboxd_memberrating |-> rating,
     link |-> "https://boxd.it/" \o guid,
     description |-> desc,
     updated |-> None, published |-> ts]

\* feedparser's entry.title of a Letterboxd review: "<Title>, <Year> - <stars>"
COMPOSITE_TITLE == "Oldboy, 2003 - " \o Repeat(G_FILLED, 4) \o G_HALF

WithTitle(e, title) == [e EXCEPT !.title = title]

Timestamps == <<"T1", "T2", "T3">>
Rank(ts) == CHOOSE i \in 1..Len(Timestamps) : Timestamps[i] = ts

SeqsUpTo(S, n) == UNION { [1..k -> S] : k \in 0..n }

(* The documents the remote end may serve: at most n entries of `menu`, *)
(* newest first, no two with the same timestamp.                        *)
NewestFirst(f) ==
    \A i, j \in 1..Len(f) : i < j => Rank(f[i].published) > Rank(f[j].published)

Documents(menu, n) == { f \in SeqsUpTo(menu, n) : NewestFirst(f) }

\* Entries of the runs' specification: every text fits both budgets.
RunMenu ==
    { RawEntry(R1, "Oldboy", "2003", "4.5", DescFit, "T1"),
      RawEntry(R1, "Oldboy", "2003", "abc", DescFit, "T2"),
      RawEntry(R2, None, None, "3.0", DescFit, "T2"),
      RawEntry(R1, "Oldboy", "2003", "4.5", DescFit, "T3"),
      RawEntry(R2, None, None, "3.0", DescShort, "T3"),
      RawEntry(W3, "Heat", "1995", "4", DescFit, "T3") }

RunFeeds == Documents(RunMenu, MaxEntries)

\* Entries of the budget specification: texts around and beyond the budgets,
\* ratings of every shape, guids with and without the review prefix.
BudgetMenu ==
    { RawEntry(R1, "Oldboy", "2003", "4.5", DescFit, "T1"),
      RawEntry(R1, "Oldboy", "2003", "4.5", DescEdge, "T1"),
      RawEntry(R1, "Oldboy", "2003", "4.5", DescMid, "T1"),
      RawEntry(R1, None, None, "3.0", DescLong, "T1"),
      RawEntry(R1, "Oldboy", "2003", "abc", DescMid, "T1"),
      RawEntry(R1, "Oldboy", "2003", None, DescFit, "T1"),
      RawEntry(W3, "Heat", "1995", "4", DescMid, "T1"),
      RawEntry(R2, "Oldboy", "2003", "4.5", DescLong, "T2"),
      RawEntry(R2, None, None, "3.0", DescMid, "T2"),
      RawEntry(R2, "Oldboy", "2003", "7", DescFit, "T2"),
      RawEntry(R2, "Oldboy", "2003", "-1", DescFit, "T2"),
      RawEntry(R2, "Oldboy", "2003", "4.3", DescFit, "T2"),
      RawEntry(R2, "Oldboy", "2003", "4.5", DescShort, "T2"),
      RawEntry(R2, "Oldboy", "2003", "4.5", DescImageOnly, "T2"),
      RawEntry(None, "Oldboy", "2003", "4.5", DescFit, "T2"),
      RawEntry("", "Oldboy", "2003", "4.5", DescFit, "T2"),
      WithTitle(RawEntry(R1, None, None, None, DescFit, "T1"), COMPOSITE_TITLE) }

BudgetFeeds == Documents(BudgetMenu, MaxEntries)

(* ------------------------------------------------------------------ *)
(* State                                                               *)
(* ------------------------------------------------------------------ *)
VARIABLES
    upstream,     \* the entries of the remote RSS document, as last fetched
    cache,        \* the file at CACHE_PATH: [exists, ok, ids]; ok = FALSE: not JSON
    files,        \* the two output files: path -> [run, entries]
    pc,           \* where the running script is
    runNo,        \* number of runs started
    args,         \* argparse result: [limit, clear_cache]
    processed,    \* the set `processed` of __main__, shared by both builds
    items,        \* the list `items` of __main__
    summarizer,   \* None or the pipeline object
    new_tw,       \* return value of the first build
    new_th,       \* return value of the second build
    hist          \* history of the run and of earlier runs, which no action reads
                  \* but to extend it:
                  \*   loaded      what load_cache returned in this run
                  \*   read        per build of this run, processed_ids as passed to it
                  \*   saves       calls of save_cache in this run
                  \*   pushes      calls of git_push in this run
                  \*   persisted   save_cache has written the file in this run
                  \*   stable      this run repeats the one before: that one wrote the
                  \*               cache, --limit is the same, the cache was not
                  \*               cleared and the document fetched is the same
                  \*   marks       guids logged as skipped (lines 107, 114) in this run
                  \*   marked      guids so logged in earlier runs that wrote the cache,
                  \*               since the last --clear-cache
                  \*   everMarked  guids so logged in any earlier run
                  \*   published   per path, guids of the entries earlier runs wrote
                  \*               to it, since the last --clear-cache
                  \*   before      the file at CACHE_PATH as this run found it
                  \*   fetchFailed requests.get raised in this run

vars == <<upstream, cache, files, pc, runNo, args, processed, items, summarizer,
          new_tw, new_th, hist>>

NoCache == [exists |-> FALSE, ok |-> TRUE, ids |-> {}]
NeverWritten == [run |-> 0, entries |-> <<>>]
NoIds == [p \in OutputPaths |-> {}]

Init ==
    /\ upstream = <<>>
    /\ cache = NoCache
    /\ files = [p \in OutputPaths |-> NeverWritten]
    /\ pc = "idle"
    /\ runNo = 0
    /\ args = [limit |-> 0, clear_cache |-> FALSE]
    /\ processed = {}
    /\ items = <<>>
    /\ summarizer = None
    /\ new_tw = {}
    /\ new_th = {}
    /\ hist = [loaded |-> {}, read |-> NoIds, saves |-> 0, pushes |-> 0,
               persisted |-> FALSE,
               stable |-> FALSE, marks |-> {}, marked |-> {}, everMarked |-> {},
               published |-> NoIds, before |-> NoCache, fetchFailed |-> FALSE]

Guids(entries) == { entries[i].guid : i \in 1..Len(entries) }

Occurrences(entries, guid) == Cardinality({ i \in 1..Len(entries) : entries[i].guid = guid })

Stopped == pc \in {"idle", "done", "aborted"}

(* ------------------------------------------------------------------ *)
(* __main__, lines 162-172: arguments, --clear-cache, load_cache       *)
(* ------------------------------------------------------------------ *)
\* lines 168-170 without the test of args.clear_cache
ClearCacheAlways(clear_cache, file) == NoCache

\* lines 168-170
ClearCache(clear_cache, file) ==
    IF clear_cache /\ file.exists THEN NoCache ELSE file

\* lines 66-70 returning the empty set whatever the file holds
load_cache_empty(file) ==
    [raised |-> file.exists /\ ~file.ok, ids |-> {}]

\* lines 66-70; json.load raises on a file that is not JSON
load_cache(file) ==
    IF file.exists
    THEN (IF file.ok THEN [raised |-> FALSE, ids |-> file.ids]
                     ELSE [raised |-> TRUE, ids |-> {}])
    ELSE [raised |-> FALSE, ids |-> {}]

\* limit 0 stands for an absent --limit too: `if args.limit` treats both alike
Start(limit, clear_cache, runs) ==
    /\ Stopped
    /\ runNo < runs
    /\ LET file == ClearCache(clear_cache, cache)
           got == load_cache(file)
       IN  /\ cache' = file
           /\ processed' = got.ids
           /\ pc' = IF got.raised THEN "aborted" ELSE "fetch"
           /\ hist' = [hist EXCEPT
                  !.loaded = got.ids,
                  !.read = NoIds,
                  !.saves = 0,
                  !.pushes = 0,
                  !.persisted = FALSE,
                  !.stable = /\ hist.persisted /\ ~clear_cache /\ limit = args.limit,
                  !.marks = {},
                  !.marked = IF clear_cache THEN {}
                             ELSE hist.marked \cup
                                  (IF hist.persisted THEN hist.marks ELSE {}),
                  !.everMarked = hist.everMarked \cup hist.marks,
                  !.published = IF clear_cache THEN NoIds
                                ELSE [p \in OutputPaths |->
                                        hist.published[p] \cup
                                        (IF files[p].run = runNo /\ runNo > 0
                                         THEN Guids(files[p].entries) ELSE {})],
                  !.before = cache,
                  !.fetchFailed = FALSE]
    /\ runNo' = runNo + 1
    /\ args' = [limit |-> limit, clear_cache |-> clear_cache]
    /\ items' = <<>>
    /\ summarizer' = None
    /\ new_tw' = {}
    /\ new_th' = {}
    /\ UNCHANGED <<upstream, files>>

(* ------------------------------------------------------------------ *)
(* __main__, lines 173-189: fetch, limit, reverse, normalise           *)
(* ------------------------------------------------------------------ *)
Reverse(s) == [i \in 1..Len(s) |-> s[Len(s) + 1 - i]]

\* line 176 alone: args.limit is not looked at
SelectAll(feed_entries, limit) == Reverse(feed_entries)

\* lines 175-176
SelectEntries(feed_entries, limit) ==
    Reverse(IF limit /= 0
            THEN (IF limit > 0 THEN SubSeq(feed_entries, 1, Min(limit, Len(feed_entries)))
                  ELSE SubSeq(feed_entries, 1, Max(0, Len(feed_entries) + limit)))
            ELSE feed_entries)

\* lines 181-189
Normalize(e) ==
    [guid |-> e.guid,
     filmTitle |-> Or(e.letterboxd_filmTitle, e.letterboxd_filmtitle),
     filmYear |-> Or(e.letterboxd_filmYear, e.letterboxd_filmyear),
     memberRating |-> Or(e.letterboxd_memberRating, e.letterboxd_memberrating),
     link |-> e.link,
     description |-> e.description,
     updated |-> Or(e.updated, e.published)]

(* requests.get returns the remote document, whose entries are by now   *)
(* `feed_entries`; upstream keeps them, as the document last fetched.   *)
FetchOk(feed_entries) ==
    /\ pc = "fetch"
    /\ upstream' = feed_entries
    /\ LET entries == SelectEntries(feed_entries, args.limit)
       IN  items' = [i \in 1..Len(entries) |-> Normalize(entries[i])]
    /\ pc' = "init"
    /\ hist' = [hist EXCEPT !.stable = hist.stable /\ feed_entries = upstream]
    /\ UNCHANGED <<cache, files, runNo, args, processed, summarizer, new_tw, new_th>>

\* requests.get raises: the script ends at line 173
FetchFail ==
    /\ pc = "fetch"
    /\ pc' = "aborted"
    /\ hist' = [hist EXCEPT !.stable = FALSE, !.fetchFailed = TRUE]
    /\ UNCHANGED <<upstream, cache, files, runNo, args, processed, items, summarizer,
                   new_tw, new_th>>

(* ------------------------------------------------------------------ *)
(* init_summarizer, lines 44-63                                        *)
(* ------------------------------------------------------------------ *)
init_summarizer(loads) == IF loads THEN "pipeline" ELSE None

InitSummarizer(loads) ==
    /\ pc = "init"
    /\ summarizer' = init_summarizer(loads)
    /\ pc' = "build_tw"
    /\ UNCHANGED <<upstream, cache, files, runNo, args, processed, items,
                   new_tw, new_th, hist>>

(* ------------------------------------------------------------------ *)
(* build_feed, lines 83-145                                            *)
(* ------------------------------------------------------------------ *)
REVIEW_PREFIX == "letterboxd-review-"

\* lines 85 and 134, for the two paths of lines 20-27: tag.lower()
TagLower(output_path) ==
    CASE output_path = TWITTER_OUTPUT_PATH -> "twitter"
      [] output_path = THREADS_OUTPUT_PATH -> "threads"

\* lines 103-105
Stars(tenths) ==
    Repeat(G_FILLED, PyInt(tenths)) \o (IF HalfPart(tenths) THEN G_HALF ELSE "")

\* line 118
Prefix(film, year, stars) ==
    G_CAMERA \o " " \o film \o ", " \o year \o "\n" \o G_STAR \o " " \o stars \o "\n"

\* line 119
Suffix(link) == "\n" \o G_LINK \o " " \o link \o HASHTAG

\* line 120
Allowed(limit_chars, prefix) == limit_chars - Len(prefix) - LINK_LEN - HASHTAG_LEN - 1

\* line 122 with `<` for `<=`
PassThroughStrict(raw, allowed, summ) == Len(raw) < allowed \/ summ = None

\* line 122: the branch that leaves the summarizer alone
PassThrough(raw, allowed, summ) == Len(raw) <= allowed \/ summ = None

\* line 130
Truncate(raw, allowed) == RStrip(SlicePrefix(raw, allowed)) \o "..."

\* line 127, on the text the pipeline returned
Returned(summary_text) == ReplaceNewlines(Strip(summary_text))

(* lines 122-130.  out is what the call of line 127 does when it is made: *)
(* it raises, or it returns out.text.                                     *)
Summarize(raw, allowed, summ, out) ==
    IF PassThrough(raw, allowed, summ) THEN raw
    ELSE IF out.raises THEN Truncate(raw, allowed)
    ELSE Returned(out.text)

\* fg.add_entry() of line 133: feedgen's add_entry(feedEntry=None, order='prepend')
\* inserts the new entry at the head of the feed's entry list
AddEntry(fg, entry) == <<entry>> \o fg

\* lines 108 and 115 left out
MarkNothing(processed_ids, guid) == processed_ids

\* lines 108 and 115
Mark(processed_ids, guid) == processed_ids \cup {guid}

\* line 95 without its test of processed_ids
SkippedNoDedup(guid, processed_ids) ==
    ~Truthy(guid) \/ ~StartsWith(guid, REVIEW_PREFIX)

\* line 95 without its test of the prefix
SkippedNoPrefix(guid, processed_ids) ==
    ~Truthy(guid) \/ guid \in processed_ids

\* line 95
Skipped(guid, processed_ids) ==
    ~Truthy(guid) \/ ~StartsWith(guid, REVIEW_PREFIX) \/ guid \in processed_ids

(* One iteration of the loop of line 93 on item `it`.  st holds the      *)
(* build's processed_ids, new_ids and the entries of fg, and `skipping`, *)
(* the guids logged as skipped at lines 107 and 114.  Beside the fields  *)
(* handed to feedgen (id, title, link, updated, content) an entry        *)
(* records the locals guid, val (in tenths, as rating), raw, allowed,    *)
(* prefix and summary of the iteration, and whether line 127 was         *)
(* reached and raised.                                                   *)
Iteration(it, st, output_path, limit_chars, summ, out) ==
    LET guid == it.guid IN
    IF Skipped(guid, st.processed_ids) THEN st
    ELSE
    LET film == Or(it.filmTitle, "Unknown")
        year == Or(it.filmYear, "")
        val == PyFloat(it.memberRating)
    IN
    IF ~val.ok THEN [st EXCEPT !.processed_ids = Mark(st.processed_ids, guid),
                               !.skipping = st.skipping \cup {guid}]
    ELSE
    LET stars == Stars(val.tenths)
        raw == extract_review(it.description)
    IN
    IF Len(raw) < 20 THEN [st EXCEPT !.processed_ids = Mark(st.processed_ids, guid),
                                     !.skipping = st.skipping \cup {guid}]
    ELSE
    LET prefix == Prefix(film, year, stars)
        suffix == Suffix(it.link)
        allowed == Allowed(limit_chars, prefix)
        summary == Summarize(raw, allowed, summ, out)
        entry == [id |-> guid \o "#" \o TagLower(output_path),
                  title |-> film \o ", " \o year \o " - " \o stars,
                  link |-> it.link,
                  updated |-> it.updated,
                  content |-> prefix \o summary \o suffix,
                  guid |-> guid, rating |-> val.tenths, raw |-> raw, allowed |-> allowed,
                  prefix |-> prefix, summary |-> summary,
                  called |-> ~PassThrough(raw, allowed, summ),
                  raised |-> ~PassThrough(raw, allowed, summ) /\ out.raises]
    IN  [st EXCEPT !.fg = AddEntry(st.fg, entry),
                   !.new_ids = st.new_ids \cup {guid}]

RECURSIVE Loop(_, _, _, _, _, _, _)
Loop(its, i, st, output_path, limit_chars, summ, outs) ==
    IF i > Len(its) THEN st
    ELSE Loop(its, i + 1,
              Iteration(its[i], st, output_path, limit_chars, summ, outs[i]),
              output_path, limit_chars, summ, outs)

\* the whole call: the state of the build at line 143
build_feed(its, output_path, limit_chars, processed_ids, summ, outs) ==
    Loop(its, 1, [processed_ids |-> processed_ids, new_ids |-> {}, fg |-> <<>>,
                  skipping |-> {}],
         output_path, limit_chars, summ, outs)

\* Build with a sink that keeps the entries the file held
BuildAppending(output_path, b, written) ==
    /\ processed' = b.processed_ids
    /\ files' = IF written
                THEN [files EXCEPT ![output_path] =
                        [run |-> runNo, entries |-> b.fg \o files[output_path].entries]]
                ELSE files
    /\ hist' = [hist EXCEPT
          !.read[output_path] = processed,
          !.marks = hist.marks \cup b.skipping]
    /\ UNCHANGED <<upstream, cache, runNo, args, items, summarizer>>

(* The call of build_feed from __main__ that ends in state b of the      *)
(* build.  written: fg.atom_file of line 143 writes the file; otherwise  *)
(* it raises and the script ends there.                                  *)
Build(output_path, b, written) ==
    /\ processed' = b.processed_ids
    /\ files' = IF written
                THEN [files EXCEPT ![output_path] = [run |-> runNo, entries |-> b.fg]]
                ELSE files
    /\ hist' = [hist EXCEPT
          !.read[output_path] = processed,
          !.marks = hist.marks \cup b.skipping]
    /\ UNCHANGED <<upstream, cache, runNo, args, items, summarizer>>

\* line 192
BuildTwitter(outs, written) ==
    /\ pc = "build_tw"
    /\ LET b == build_feed(items, TWITTER_OUTPUT_PATH, TW_LIMIT, processed, summarizer, outs)
       IN  /\ Build(TWITTER_OUTPUT_PATH, b, written)
           /\ new_tw' = IF written THEN b.new_ids ELSE new_tw
    /\ pc' = IF written THEN "build_th" ELSE "aborted"
    /\ UNCHANGED new_th

\* line 193
BuildThreads(outs, written) ==
    /\ pc = "build_th"
    /\ LET b == build_feed(items, THREADS_OUTPUT_PATH, TH_LIMIT, processed, summarizer, outs)
       IN  /\ Build(THREADS_OUTPUT_PATH, b, written)
           /\ new_th' = IF written THEN b.new_ids ELSE new_th
    /\ pc' = IF written THEN "save" ELSE "aborted"
    /\ UNCHANGED new_tw

(* ------------------------------------------------------------------ *)
(* __main__, lines 194-197                                             *)
(* ------------------------------------------------------------------ *)
\* line 194 left out
MergedNothing(processed_ids, tw, th) == processed_ids

\* line 194 as an assignment of the union of the returned sets
MergedOnlyNew(processed_ids, tw, th) == tw \cup th

\* line 194
Merged(processed_ids, tw, th) == processed_ids \cup (tw \cup th)

(* lines 72-74.  open() raises and the file stays as it was, or the     *)
(* write raises after open() truncated the file, or the list is written *)
save_cache(file, ids, outcome) ==
    CASE outcome = "written" -> [exists |-> TRUE, ok |-> TRUE, ids |-> ids]
      [] outcome = "open_raises" -> file
      [] outcome = "write_raises" -> [exists |-> TRUE, ok |-> FALSE, ids |-> {}]

SaveOutcomes == {"written", "open_raises", "write_raises"}

\* lines 194-196
MergeAndSave(outcome) ==
    /\ pc = "save"
    /\ processed' = Merged(processed, new_tw, new_th)
    /\ cache' = save_cache(cache, processed', outcome)
    /\ pc' = IF outcome = "written" THEN "push" ELSE "aborted"
    /\ hist' = [hist EXCEPT
          !.saves = hist.saves + 1,
          !.persisted = (outcome = "written")]
    /\ UNCHANGED <<upstream, files, runNo, args, items, summarizer, new_tw, new_th>>

\* line 197; a failing git command raises CalledProcessError
GitPush(pushed) ==
    /\ pc = "push"
    /\ pc' = IF pushed THEN "done" ELSE "aborted"
    /\ hist' = [hist EXCEPT !.pushes = hist.pushes + 1]
    /\ UNCHANGED <<upstream, cache, files, runNo, args, processed, items, summarizer,
                   new_tw, new_th>>

(* ------------------------------------------------------------------ *)
(* Specifications                                                      *)
(* ------------------------------------------------------------------ *)
Limits == {0, 1}

NoCall == [raises |-> TRUE, text |-> ""]

\* what the summarization pipeline may do on a call
SumOutcomes ==
    { [raises |-> TRUE, text |-> ""],
      [raises |-> FALSE, text |-> " A short\nsummary. "],
      [raises |-> FALSE, text |-> Repeat(Unit, 45)] }

OutcomesFor(its, outcomes) == [1..Len(its) -> outcomes]

Steps(feeds, outcomes, runs) ==
    \/ \E limit \in Limits, clear_cache \in BOOLEAN : Start(limit, clear_cache, runs)
    \/ \E feed_entries \in feeds : FetchOk(feed_entries)
    \/ FetchFail
    \/ \E loads \in BOOLEAN : InitSummarizer(loads)
    \/ \E outs \in OutcomesFor(items, outcomes), written \in BOOLEAN :
          BuildTwitter(outs, written)
    \/ \E outs \in OutcomesFor(items, outcomes), written \in BOOLEAN :
          BuildThreads(outs, written)
    \/ \E outcome \in SaveOutcomes : MergeAndSave(outcome)
    \/ \E pushed \in BOOLEAN : GitPush(pushed)

\* runs of the script on a changing remote document, every text within budget
Next == Steps(RunFeeds, {NoCall}, MaxRuns)

Spec == Init /\ [][Next]_vars

\* one run of the script on a document whose texts may exceed the budgets
NextBudget == Steps(BudgetFeeds, SumOutcomes, 1)

SpecBudget == Init /\ [][NextBudget]_vars

(* ------------------------------------------------------------------ *)
(* Properties                                                          *)
(* ------------------------------------------------------------------ *)
WrittenNow(p) == runNo > 0 /\ files[p].run = runNo

BothWrittenNow == \A p \in OutputPaths : WrittenNow(p)

Indexes(p) == 1..Len(files[p].entries)

\* lines 95-116 let the item through when no guid is in processed_ids
Publishable(it) ==
    /\ Truthy(it.guid)
    /\ StartsWith(it.guid, REVIEW_PREFIX)
    /\ PyFloat(it.memberRating).ok
    /\ Len(extract_review(it.description)) >= 20

(* C1: in any build, with a budget allowed >= 3, the body placed between *)
(* prefix and suffix is at most allowed characters long, whether it was  *)
(* passed through, summarized or truncated.                              *)
C1_BodyWithinBudget ==
    \A p \in OutputPaths : WrittenNow(p) =>
        \A i \in Indexes(p) :
            LET e == files[p].entries[i] IN
            e.allowed >= 3 => Len(e.summary) <= e.allowed

(* C2: a record whose identity is in the Publication State loaded at the *)
(* start of a run is emitted to neither feed in that run.                *)
C2_LoadedNotEmitted ==
    \A p \in OutputPaths : WrittenNow(p) =>
        Guids(files[p].entries) \cap hist.loaded = {}

C2_Witness ==
    /\ pc = "done"
    /\ BothWrittenNow
    /\ \E i \in 1..Len(items) : Publishable(items[i]) /\ items[i].guid \in hist.loaded

(* C3: a run that repeats the run before it (same document, same limit, *)
(* cache written by the first and not cleared) emits no entry to either *)
(* feed, and the cache it writes holds the set the first run wrote.     *)
C3_SecondRunIdempotent ==
    hist.stable =>
        /\ \A p \in OutputPaths : WrittenNow(p) => files[p].entries = <<>>
        /\ hist.persisted => cache = [exists |-> TRUE, ok |-> TRUE, ids |-> hist.loaded]

C3_Witness ==
    /\ hist.stable
    /\ pc = "done"
    /\ BothWrittenNow
    /\ \E i \in 1..Len(items) : Publishable(items[i])

(* C4: over runs without cache clearing each identity is emitted to a   *)
(* platform's feed at most once in total, and at most once in a build,  *)
(* also when the document holds the same identity more than once.       *)
C4_AtMostOnce ==
    \A p \in OutputPaths : WrittenNow(p) =>
        \A g \in Guids(files[p].entries) :
            /\ Occurrences(files[p].entries, g) = 1
            /\ g \notin hist.published[p]

C6_FallbackIsHardTruncation ==
    \A p \in OutputPaths : WrittenNow(p) =>
        \A i \in Indexes(p) :
            LET e == files[p].entries[i] IN
            (e.allowed >= 3 /\ Len(e.raw) > e.allowed /\ (summarizer = None \/ e.raised)) =>
                /\ e.summary = SubSeq(Strip(e.raw), 1, e.allowed - 3) \o "..."
                /\ Len(e.summary) = e.allowed

(* C7: when the extracted text is at most allowed characters long the   *)
(* body of the entry is that text and the summarizer is not called.     *)
C7_FitsPassesThrough ==
    \A p \in OutputPaths : WrittenNow(p) =>
        \A i \in Indexes(p) :
            LET e == files[p].entries[i] IN
            Len(e.raw) <= e.allowed =>
                /\ e.summary = e.raw
                /\ ~e.called
                /\ e.content = e.prefix \o e.raw \o Suffix(e.link)

C7_Witness ==
    /\ summarizer /= None
    /\ \E p \in OutputPaths : WrittenNow(p) /\
          \E i \in Indexes(p) : Len(files[p].entries[i].raw) = files[p].entries[i].allowed

(* C8: both builds of a run read the set loaded at the start of the run: *)
(* the first build adds nothing to what the second consults.             *)
C8_SameSnapshot ==
    pc \in {"save", "push", "done"} =>
        /\ hist.read[TWITTER_OUTPUT_PATH] = hist.loaded
        /\ hist.read[THREADS_OUTPUT_PATH] = hist.loaded

(* C9: with the document's entries newest first, the entries of each    *)
(* feed written appear oldest first.                                     *)
C9_FeedsChronological ==
    \A p \in OutputPaths : WrittenNow(p) =>
        \A i, j \in Indexes(p) :
            i < j => Rank(files[p].entries[i].updated) < Rank(files[p].entries[j].updated)

(* C10: a run calls save_cache at most once and only after both builds  *)
(* wrote their feeds, exactly once when it gets that far; what it       *)
(* writes is the loaded set with the skipped and the newly published    *)
(* identities of both builds; git_push is called only after that write  *)
(* succeeded.                                                           *)
C10_PersistOnceThenPublish ==
    /\ hist.saves <= 1
    /\ hist.pushes <= 1
    /\ hist.saves = 1 => BothWrittenNow
    /\ pc \in {"push", "done"} => hist.saves = 1 /\ hist.persisted
    /\ hist.persisted =>
          cache = [exists |-> TRUE, ok |-> TRUE,
                   ids |-> hist.loaded \cup hist.marks \cup new_tw \cup new_th]
    /\ hist.pushes > 0 => hist.persisted /\ BothWrittenNow

C10_Witness ==
    /\ pc = "done"
    /\ hist.pushes = 1
    /\ new_tw /= {}
    /\ hist.marks /= {}

(* ------------------------------------------------------------------ *)
(* Failure of the fetch, of a sink                                     *)
(* ------------------------------------------------------------------ *)
NothingWrittenNorPushed ==
    /\ \A p \in OutputPaths : ~WrittenNow(p)
    /\ hist.saves = 0
    /\ hist.pushes = 0

(* C11 as stated: when requests.get raises, whatever the flags of the   *)
(* run, the cache file is what it was before the run, neither output    *)
(* file is written by the run and git_push is not called.               *)
C11_FetchFailureMutatesNothing ==
    hist.fetchFailed =>
        /\ cache = hist.before
        /\ NothingWrittenNorPushed

(* C11 amended: when requests.get raises, neither output file is        *)
(* written by the run, save_cache and git_push are not called, and the  *)
(* cache file is what it was before the run unless the run was started  *)
(* with --clear-cache, which has removed the file by then.              *)
C11_FetchFailureKeepsAllButClearedCache ==
    hist.fetchFailed =>
        /\ pc = "aborted"
        /\ NothingWrittenNorPushed
        /\ ~args.clear_cache => cache = hist.before
        /\ args.clear_cache => ~cache.exists

\* the fetch fails in a run without --clear-cache that found a cache file
\* and output files of an earlier run
C11_Witness ==
    /\ hist.fetchFailed
    /\ ~args.clear_cache
    /\ cache.exists /\ cache.ids /= {}
    /\ \E p \in OutputPaths : files[p].run > 0 /\ files[p].entries /= <<>>

(* C12: no partial output files.  Once a run has ended, it has written  *)
(* both output files or neither, also when it ended in the second       *)
(* build or its fg.atom_file.                                           *)
C12_BothFeedsOrNeither ==
    (Stopped /\ runNo > 0) =>
        (WrittenNow(TWITTER_OUTPUT_PATH) <=> WrittenNow(THREADS_OUTPUT_PATH))

(* ------------------------------------------------------------------ *)
(* What a build writes and returns                                     *)
(* ------------------------------------------------------------------ *)
ReturnedBy(p) == IF p = TWITTER_OUTPUT_PATH THEN new_tw ELSE new_th

\* the guids that reach line 107 or 114 unless line 95 skips them
Unfit(it) ==
    /\ Truthy(it.guid)
    /\ StartsWith(it.guid, REVIEW_PREFIX)
    /\ ~(PyFloat(it.memberRating).ok /\ Len(extract_review(it.description)) >= 20)

(* The Publication State in memory when the build of p reaches record i: *)
(* the set passed to the build and the marks set on the way.             *)
StateAt(p, i) ==
    hist.read[p] \cup { items[j].guid : j \in { k \in 1..(i - 1) : Unfit(items[k]) } }

Due(p) == { i \in 1..Len(items) : Publishable(items[i]) /\ items[i].guid \notin StateAt(p, i) }

(* C13: the file a build writes holds exactly one entry for each input  *)
(* record with a review guid that is not in the Publication State when  *)
(* the build reaches it, a valid rating and 20 characters of text or    *)
(* more; it holds no entry of an earlier run; and the set the build     *)
(* returns is the set of the guids of the entries written.              *)
C13_DeltaFeed ==
    \A p \in OutputPaths : WrittenNow(p) =>
        LET entries == files[p].entries IN
        /\ Len(entries) = Cardinality(Due(p))
        /\ \A i \in Due(p) : \E k \in Indexes(p) :
               entries[k].guid = items[i].guid /\ entries[k].updated = items[i].updated
        /\ \A k \in Indexes(p) : \E i \in Due(p) :
               entries[k].guid = items[i].guid /\ entries[k].updated = items[i].updated
        /\ ReturnedBy(p) = Guids(entries)

\* a later run writes entries over files that held entries of an earlier
\* run, and leaves out a record that is in the Publication State
C13_Witness ==
    /\ runNo >= 2
    /\ pc = "done"
    /\ BothWrittenNow
    /\ \A p \in OutputPaths : files[p].entries /= <<>> /\ hist.published[p] /= {}
    /\ \E i \in 1..Len(items) : Publishable(items[i]) /\ items[i].guid \in hist.loaded

(* ------------------------------------------------------------------ *)
(* --limit                                                             *)
(* ------------------------------------------------------------------ *)
\* the ids the cache file held when the run was started
PersistedBefore == IF hist.before.exists /\ hist.before.ok THEN hist.before.ids ELSE {}

(* C14 as stated: in a run with --limit the persisted Publication State *)
(* is bypassed: a record among the limited entries that would be        *)
(* published but for its guid being in the persisted set is emitted to  *)
(* the feeds the run writes.                                            *)
C14_LimitBypassesCache ==
    args.limit /= 0 =>
        \A p \in OutputPaths : WrittenNow(p) =>
            \A i \in 1..Len(items) :
                (Publishable(items[i]) /\ items[i].guid \in PersistedBefore)
                    => items[i].guid \in Guids(files[p].entries)

(* C14 amended: --limit N only cuts the fetched list down to its first  *)
(* N (newest) entries; the persisted Publication State is loaded and    *)
(* applied as in any run, so a record whose guid is in the loaded set   *)
(* is emitted to neither feed.                                          *)
C14_LimitOnlyCutsTheList ==
    args.limit > 0 =>
        /\ Len(items) <= args.limit
        /\ \A i \in 1..Len(items) : items[i] = Normalize(upstream[Len(items) + 1 - i])
        /\ hist.loaded = (IF args.clear_cache THEN {} ELSE PersistedBefore)
        /\ \A p \in OutputPaths : WrittenNow(p) =>
               Guids(files[p].entries) \cap hist.loaded = {}

\* a run with --limit 1 on a document of two entries finds the guid of
\* the newest entry, a publishable one, in the cache and writes both feeds
C14_Witness ==
    /\ args.limit = 1
    /\ ~args.clear_cache
    /\ pc = "done"
    /\ BothWrittenNow
    /\ Len(upstream) = 2
    /\ Len(items) = 1
    /\ Publishable(items[1])
    /\ items[1].guid \in PersistedBefore

(* ------------------------------------------------------------------ *)
(* Normalisation of the fetched entries                                *)
(* ------------------------------------------------------------------ *)
NoStructuredFields(e) ==
    /\ ~Truthy(e.letterboxd_filmTitle) /\ ~Truthy(e.letterboxd_filmtitle)
    /\ ~Truthy(e.letterboxd_filmYear) /\ ~Truthy(e.letterboxd_filmyear)
    /\ ~Truthy(e.letterboxd_memberRating) /\ ~Truthy(e.letterboxd_memberrating)

(* C15: an entry without structured film fields whose title is          *)
(* "Oldboy, 2003 - <four stars and a half>" is parsed from that title   *)
(* (film Oldboy, year 2003, those stars) and, its guid and text being   *)
(* publishable, is emitted with these values instead of being skipped.  *)
C15_CompositeTitleFallback ==
    \A p \in OutputPaths : WrittenNow(p) =>
        \A k \in 1..Len(items) :
            LET e == upstream[k] IN
            ( /\ NoStructuredFields(e)
              /\ e.title = COMPOSITE_TITLE
              /\ Truthy(e.guid) /\ StartsWith(e.guid, REVIEW_PREFIX)
              /\ e.guid \notin hist.read[p]
              /\ Len(extract_review(e.description)) >= 20 )
            => \E i \in Indexes(p) :
                  /\ files[p].entries[i].guid = e.guid
                  /\ files[p].entries[i].title = COMPOSITE_TITLE
                  /\ files[p].entries[i].prefix =
                        Prefix("Oldboy", "2003", Repeat(G_FILLED, 4) \o G_HALF)

(* ------------------------------------------------------------------ *)
(* Ratings                                                             *)
(* ------------------------------------------------------------------ *)
\* 0.0, 0.5, ... 5.0 in tenths
HalfSteps == { 5 * n : n \in 0..10 }

(* C16: every entry written has a rating in [0.0, 5.0] in steps of 0.5; *)
(* a record whose rating parses to another number, such as 7, -1 or     *)
(* 4.3, is treated as invalid: skipped, its guid marked processed.      *)
C16_RatingInHalfSteps ==
    /\ \A p \in OutputPaths : WrittenNow(p) =>
           \A i \in Indexes(p) : files[p].entries[i].rating \in HalfSteps
    /\ pc \in {"save", "push", "done"} =>
           \A i \in 1..Len(items) :
               LET val == PyFloat(items[i].memberRating) IN
               (val.ok /\ val.tenths \notin HalfSteps /\ ~Skipped(items[i].guid, hist.loaded))
                   => items[i].guid \in hist.marks

(* ------------------------------------------------------------------ *)
(* Guids that are not a review's                                       *)
(* ------------------------------------------------------------------ *)
IsReviewGuid(guid) == Truthy(guid) /\ StartsWith(guid, REVIEW_PREFIX)

ItemGuids == { items[i].guid : i \in 1..Len(items) }

(* C17: an entry whose guid is absent, empty or without the prefix      *)
(* "letterboxd-review-" is discarded: it is in no feed, its guid is not *)
(* in the in-memory set, not in the set a build returns and not in the  *)
(* cache file.                                                          *)
C17_NonReviewDiscarded ==
    \A g \in ItemGuids : ~IsReviewGuid(g) =>
        /\ \A p \in OutputPaths : g \notin Guids(files[p].entries)
        /\ g \notin processed
        /\ g \notin new_tw \cup new_th
        /\ g \notin hist.marks
        /\ g \notin cache.ids

\* a run to its end on an entry with another prefix, which is otherwise
\* publishable, and an entry without guid
C17_Witness ==
    /\ pc = "done"
    /\ BothWrittenNow
    /\ \E i, j \in 1..Len(items) :
          /\ items[i].guid = W3
          /\ PyFloat(items[i].memberRating).ok
          /\ Len(extract_review(items[i].description)) >= 20
          /\ ~Truthy(items[j].guid)

(* ------------------------------------------------------------------ *)
(* The order of the two builds                                         *)
(* ------------------------------------------------------------------ *)
LimitOf(p) == IF p = TWITTER_OUTPUT_PATH THEN TW_LIMIT ELSE TH_LIMIT

(* Lines 192-194 with the build of path `first` called before the build *)
(* of path `second`, both on `processed_ids`, the second one seeing the *)
(* marks of the first as in the script.                                 *)
BuildsInOrder(first, second, processed_ids, outs) ==
    LET b1 == build_feed(items, first, LimitOf(first), processed_ids, summarizer, outs)
        b2 == build_feed(items, second, LimitOf(second), b1.processed_ids, summarizer, outs)
    IN  [fg |-> (first :> b1.fg) @@ (second :> b2.fg),
         new_ids |-> (first :> b1.new_ids) @@ (second :> b2.new_ids),
         saved |-> Merged(b2.processed_ids, b1.new_ids, b2.new_ids)]

(* C18: the two builds are order-insensitive.  Whenever the script is   *)
(* about to build, calling the Twitter build first or the Threads build *)
(* first yields the same entries in each feed, the same returned set    *)
(* for each platform and the same set to persist.                       *)
C18_BuildOrderInsensitive ==
    pc = "build_tw" =>
        \A outs \in OutcomesFor(items, {NoCall}) :
            BuildsInOrder(TWITTER_OUTPUT_PATH, THREADS_OUTPUT_PATH, processed, outs)
          = BuildsInOrder(THREADS_OUTPUT_PATH, TWITTER_OUTPUT_PATH, processed, outs)

(* ------------------------------------------------------------------ *)
(* Length of the rendered content                                      *)
(* ------------------------------------------------------------------ *)
\* "\n" + link glyph + " ", the part of the suffix before the link
LinkLead == "\n" \o G_LINK \o " "

(* C19: for every entry written whose body is at most `allowed`          *)
(* characters long, prefix, body, the lead of the link line, a link     *)
(* counted as LINK_LEN characters and the hashtag together are at most  *)
(* the platform's limit (TW_LIMIT, TH_LIMIT) long.                      *)
C19_RenderedWithinLimit ==
    \A p \in OutputPaths : WrittenNow(p) =>
        \A i \in Indexes(p) :
            LET e == files[p].entries[i] IN
            Len(e.summary) <= e.allowed =>
                Len(e.prefix) + Len(e.summary) + Len(LinkLead) + LINK_LEN + Len(HASHTAG)
                    <= LimitOf(p)

(* ------------------------------------------------------------------ *)
(* The set persisted                                                   *)
(* ------------------------------------------------------------------ *)
(* C20: once a run has written the cache file, the file holds the set   *)
(* the run loaded and the guids of the run's input entries that carry   *)
(* the review prefix, whether published, skipped for rating or text, or *)
(* already known: nothing is removed and nothing else is added.         *)
C20_PersistedIsLoadedPlusReviewGuids ==
    hist.persisted =>
        /\ cache.exists /\ cache.ok
        /\ cache.ids = hist.loaded \cup { g \in ItemGuids : IsReviewGuid(g) }

\* the cache is written by a run that loaded a non-empty set and read a
\* review entry it did not know, which it skipped for its rating or text,
\* and an entry that is no review
C20_Witness ==
    /\ hist.persisted
    /\ hist.loaded /= {}
    /\ \E i \in 1..Len(items) : Unfit(items[i]) /\ items[i].guid \notin hist.loaded
    /\ \E i \in 1..Len(items) : ~IsReviewGuid(items[i].guid)

====
